---- MODULE Spec2Model ----
(***************************************************************************)
(* Tamashii: a local file-integrity tracker.  The model covers the record  *)
(* builder (models.rs), the Database and its persistence (models.rs,       *)
(* database.rs), the hashing of file content (hash.rs) and the commands of *)
(* the command line (main.rs: add, verify, status, init).                  *)
(*                                                                         *)
(* Abstractions, all stated where they are made:                           *)
(*  - SHA-256 is replaced by a small deterministic fold of the bytes into   *)
(*    32 bytes, written as 64 hex digits; like every digest it is not      *)
(*    injective, so the claims speak of digests where the code does.       *)
(*  - a hex string is the sequence of its digits (0..15); a JSON document  *)
(*    is the sequence of its members <<key, value>>; numbers and times are *)
(*    written as digit sequences and parsed back.                          *)
(*  - Option<T> is a sequence of length 0 (None) or 1 (Some).              *)
(***************************************************************************)
EXTENDS Integers, Sequences, FiniteSets, TLC

VARIABLES
    fs,        \* the tracked files: path -> [exists, bytes, created]
    disk,      \* the persisted store file at DB_PATH: [exists, text]
    cwdOk,     \* whether the process's current directory can be determined
    now,       \* the wall clock (Utc::now), non-decreasing
    pc,        \* per process: position in run()
    cmd,       \* per process: the parsed command line
    loc,       \* per process: the locals of run() (file, meta, hash, db)
    out,       \* per process: what the command reported and how it ended
    hist,      \* history: per path, the successful adds and the bytes last added
    db,        \* library level: the caller's Database (Option)
    bld,       \* library level: the caller's FileRecordBuilder (Option)
    ret        \* library level: the last call and its result

vars == <<fs, disk, cwdOk, now, pc, cmd, loc, out, hist, db, bld, ret>>

----------------------------------------------------------------------------
(* Bounds of the model *)

MaxClock == 1
MaxFiles == 2

----------------------------------------------------------------------------
(* Program constants *)

VERSION == "1.0.0"
DB_PATH == ".tamashii.json"
HashPrefixLen == 8

----------------------------------------------------------------------------
(* Values *)

None == <<>>
Some(x) == <<x>>
IsSome(o) == Len(o) = 1
IsNone(o) == Len(o) = 0
Unwrap(o) == o[1]

Ok(v) == [ok |-> TRUE, val |-> Some(v), err |-> ""]
Err(e) == [ok |-> FALSE, val |-> None, err |-> e]

Paths == {"a.txt", "b.txt"}
CwdPath == "/work"
Ids == {"id1", "id2"}

Hello == <<104, 101, 108, 108, 111>>
World == <<119, 111, 114, 108, 100>>
\* 256 bytes: the smallest length that does not fit a u8
Big == [i \in 1..256 |-> 0]
Contents == {Hello, Big}

Times == 0..MaxClock

----------------------------------------------------------------------------
(* hash.rs *)

\* The stand-in for Sha256: 7 * 31^n + b1 * 31^(n-1) + ... + bn, modulo 2^15,
\* computed by halving so that a long input does not nest deeply.
RECURSIVE Pow31(_)
Pow31(k) ==
    IF k = 0 THEN 1
    ELSE LET h == Pow31(k \div 2) IN
         IF k % 2 = 0 THEN (h * h) % 32768 ELSE (((h * h) % 32768) * 31) % 32768

RECURSIVE Poly(_)
Poly(bytes) ==
    IF Len(bytes) = 0 THEN 0
    ELSE IF Len(bytes) = 1 THEN bytes[1]
    ELSE LET h == Len(bytes) \div 2
             l == SubSeq(bytes, 1, h)
             r == SubSeq(bytes, h + 1, Len(bytes))
         IN (Poly(l) * Pow31(Len(r)) + Poly(r)) % 32768

Fold(bytes) == (7 * Pow31(Len(bytes)) + Poly(bytes)) % 32768

\* Sha256::new(); update(bytes); finalize(): 32 bytes.  The stand-in puts
\* the fold into the first two and zeros into the rest.
Sha256(bytes) ==
    [i \in 1..32 |->
        IF i = 1 THEN Fold(bytes) \div 256
        ELSE IF i = 2 THEN Fold(bytes) % 256 ELSE 0]

\* format!("{:x}", ..) of a byte array: two hex digits a byte, in order
LowerHex(arr) ==
    [i \in 1..(2 * Len(arr)) |->
        IF i % 2 = 1 THEN arr[(i + 1) \div 2] \div 16 ELSE arr[i \div 2] % 16]

hash_bytes(bytes) == LowerHex(Sha256(bytes))

\* impl PartialEq for HexStirng: equality of the strings
HexEq(a, b) == a = b

----------------------------------------------------------------------------
(* models.rs: FileRecordBuilder *)

\* `meta.len() as u8`
AsU8(n) == n % 256

builder ==
    [id |-> None, path |-> None, hash |-> None, size |-> None, time_stamp |-> None]

with_fields(b, id, path, hash, size, time_stamp) ==
    [id |-> Some(id), path |-> Some(path), hash |-> Some(hash),
     size |-> Some(size), time_stamp |-> Some(time_stamp)]

\* a validate that tests the fields from the last to the first
validate_reversed(b) ==
    IF IsNone(b.time_stamp) THEN Err("Timestamp is missing")
    ELSE IF IsNone(b.size) THEN Err("Size is missing")
    ELSE IF IsNone(b.hash) THEN Err("Hash is missing")
    ELSE IF IsNone(b.path) THEN Err("Path is missing")
    ELSE IF IsNone(b.id) THEN Err("ID is missing")
    ELSE Ok("unit")

validate(b) ==
    IF IsNone(b.id) THEN Err("ID is missing")
    ELSE IF IsNone(b.path) THEN Err("Path is missing")
    ELSE IF IsNone(b.hash) THEN Err("Hash is missing")
    ELSE IF IsNone(b.size) THEN Err("Size is missing")
    ELSE IF IsNone(b.time_stamp) THEN Err("Timestamp is missing")
    ELSE Ok("unit")

FileRecord(b) ==
    [id |-> Unwrap(b.id), path |-> Unwrap(b.path), hash |-> Unwrap(b.hash),
     size |-> Unwrap(b.size), time_stamp |-> Unwrap(b.time_stamp)]

\* commit that pushes the record onto a copy of the Database
commit_on_clone(b, d, t) ==
    LET v == validate(b) IN
    IF ~v.ok THEN [res |-> Err(v.err), db |-> d]
    ELSE [res |-> Ok(FileRecord(b)), db |-> d]

\* commit with the new record put first instead of last
commit_prepend(b, d, t) ==
    LET v == validate(b) IN
    IF ~v.ok THEN [res |-> Err(v.err), db |-> d]
    ELSE LET record == FileRecord(b) IN
         [res |-> Ok(record),
          db |-> [d EXCEPT !.files = <<record>> \o @, !.updated_at = t]]

\* commit that stamps updated_at before it validates
commit_stamp_first(b, d, t) ==
    LET v == validate(b) IN
    IF ~v.ok THEN [res |-> Err(v.err), db |-> [d EXCEPT !.updated_at = t]]
    ELSE LET record == FileRecord(b) IN
         [res |-> Ok(record),
          db |-> [d EXCEPT !.files = Append(@, record), !.updated_at = t]]

\* commit on builder b borrowing Database d, with Utc::now() reading t:
\* the result, and the Database afterwards
\* a commit that stamps the new id on every record
commit_reid(b, d, t) ==
    IF ~validate(b).ok THEN [res |-> Err(validate(b).err), db |-> d]
    ELSE LET r == FileRecord(b)
             kept == [i \in 1..Len(d.files) |-> [d.files[i] EXCEPT !.id = r.id]]
         IN [res |-> Ok(Some(r)),
             db |-> [d EXCEPT !.files = Append(kept, r), !.updated_at = t]]

commit(b, d, t) ==
    LET v == validate(b) IN
    IF ~v.ok THEN [res |-> Err(v.err), db |-> d]
    ELSE LET record == FileRecord(b) IN
         [res |-> Ok(record),
          db |-> [d EXCEPT !.files = Append(@, record), !.updated_at = t]]

----------------------------------------------------------------------------
(* models.rs: Database::new *)

\* a new() that puts the first reading in updated_at and the second in
\* created_at
new_swapped(cwd_ok, t1, t2) ==
    IF ~cwd_ok THEN Err("Failed to get current directory")
    ELSE Ok([version |-> VERSION, root_dir |-> CwdPath, created_at |-> t2,
             updated_at |-> t1, files |-> <<>>])

\* t1 and t2 are the two readings of Utc::now()
new(cwd_ok, t1, t2) ==
    IF ~cwd_ok THEN Err("Failed to get current directory")
    ELSE Ok([version |-> VERSION, root_dir |-> CwdPath, created_at |-> t1,
             updated_at |-> t2, files |-> <<>>])

----------------------------------------------------------------------------
(* database.rs: the persisted JSON document *)

\* a number as its decimal digits, most significant first
RECURSIVE Digits(_)
Digits(n) == IF n < 10 THEN <<n>> ELSE Append(Digits(n \div 10), n % 10)

RECURSIVE FromDigits(_)
FromDigits(ds) ==
    IF Len(ds) = 0 THEN 0
    ELSE FromDigits(SubSeq(ds, 1, Len(ds) - 1)) * 10 + ds[Len(ds)]

\* chrono's serde form of DateTime<Utc>: a sign and the digits
FormatTime(t) == [neg |-> t < 0, digits |-> Digits(IF t < 0 THEN -t ELSE t)]
ParseTime(x) == IF x.neg THEN -FromDigits(x.digits) ELSE FromDigits(x.digits)

HasField(obj, k) == \E i \in 1..Len(obj) : obj[i][1] = k
Field(obj, k) == obj[CHOOSE i \in 1..Len(obj) : obj[i][1] = k][2]

\* #[derive(Serialize)] for FileRecord: the members in declaration order
FileRecordToJson(r) ==
    << <<"id", r.id>>, <<"path", r.path>>, <<"hash", r.hash>>,
       <<"size", Digits(r.size)>>, <<"time_stamp", FormatTime(r.time_stamp)>> >>

\* #[derive(Serialize)] for Database
DatabaseToJson(d) ==
    << <<"version", d.version>>, <<"root_dir", d.root_dir>>,
       <<"created_at", FormatTime(d.created_at)>>,
       <<"updated_at", FormatTime(d.updated_at)>>,
       <<"files", [i \in 1..Len(d.files) |-> FileRecordToJson(d.files[i])]>> >>

FileRecordFields == {"id", "path", "hash", "size", "time_stamp"}
DatabaseFields == {"version", "root_dir", "created_at", "updated_at", "files"}

\* #[derive(Deserialize)] for FileRecord: every member present, size a u8
FileRecordJsonOk(o) ==
    /\ \A k \in FileRecordFields : HasField(o, k)
    /\ FromDigits(Field(o, "size")) < 256

\* a deserializer that reads the size from its last digit alone
FileRecordFromJson_last_digit(o) ==
    [id |-> Field(o, "id"), path |-> Field(o, "path"), hash |-> Field(o, "hash"),
     size |-> Field(o, "size")[Len(Field(o, "size"))],
     time_stamp |-> ParseTime(Field(o, "time_stamp"))]

FileRecordFromJson(o) ==
    [id |-> Field(o, "id"), path |-> Field(o, "path"), hash |-> Field(o, "hash"),
     size |-> FromDigits(Field(o, "size")),
     time_stamp |-> ParseTime(Field(o, "time_stamp"))]

\* serde_json::from_str::<Database>
DatabaseFromJson(doc) ==
    IF /\ \A k \in DatabaseFields : HasField(doc, k)
       /\ \A i \in 1..Len(Field(doc, "files")) :
              FileRecordJsonOk(Field(doc, "files")[i])
    THEN Ok([version |-> Field(doc, "version"),
             root_dir |-> Field(doc, "root_dir"),
             created_at |-> ParseTime(Field(doc, "created_at")),
             updated_at |-> ParseTime(Field(doc, "updated_at")),
             files |-> [i \in 1..Len(Field(doc, "files")) |->
                            FileRecordFromJson(Field(doc, "files")[i])]])
    ELSE Err("Invalid JSON format")

NoFile == [exists |-> FALSE, text |-> <<>>]
\* a file that is there and is no store: zero bytes
EmptyFile == [exists |-> TRUE, text |-> <<>>]

\* DB_PATH is relative: it resolves only while the current directory does
DbReadable(dsk, cwd_ok) == cwd_ok /\ dsk.exists

\* write_database_file: the result, and the file afterwards
write_database_file(d, dsk, cwd_ok) ==
    IF ~cwd_ok THEN [res |-> Err("Failed to write to database"), disk |-> dsk]
    ELSE [res |-> Ok("unit"), disk |-> [exists |-> TRUE, text |-> DatabaseToJson(d)]]

parse_database_file(dsk, cwd_ok) ==
    IF ~DbReadable(dsk, cwd_ok) THEN Err("Unable to parse the json(db) file")
    ELSE DatabaseFromJson(dsk.text)

----------------------------------------------------------------------------
(* models.rs: Database::load, save, get_or_create_db *)

load(dsk, cwd_ok) ==
    LET r == parse_database_file(dsk, cwd_ok) IN
    IF r.ok THEN r ELSE Err("Failed to load DB file")

save(d, dsk, cwd_ok) == write_database_file(d, dsk, cwd_ok)

\* get_or_create_db that answers a failed load with a fresh Database
get_or_create_db_fresh_on_error(dsk, cwd_ok, t1, t2) ==
    IF ~DbReadable(dsk, cwd_ok) \/ ~load(dsk, cwd_ok).ok THEN new(cwd_ok, t1, t2)
    ELSE load(dsk, cwd_ok)

get_or_create_db(dsk, cwd_ok, t1, t2) ==
    IF ~DbReadable(dsk, cwd_ok) THEN new(cwd_ok, t1, t2)
    ELSE load(dsk, cwd_ok)

----------------------------------------------------------------------------
(* Initial values shared by the specifications *)

Procs == {"p1", "p2"}

NoEntry == [exists |-> FALSE, bytes |-> <<>>, created |-> 0]
Entry(bytes, created) == [exists |-> TRUE, bytes |-> bytes, created |-> created]

NoCmd == [name |-> "none", path |-> None, all |-> FALSE]
NoLoc == [file |-> None, meta |-> None, hash |-> None, db |-> None, read |-> None]
NoOut == [result |-> "none", outcome |-> "none", report |-> <<>>, opens |-> 0,
          loads |-> 0, writes |-> 0]
NoRet == [op |-> "none", ok |-> TRUE, err |-> "", rec |-> None]

\* "a.txt" holds "hello" and "b.txt" does not exist
InitFs == [p \in Paths |-> IF p = "a.txt" THEN Entry(Hello, 0) ELSE NoEntry]

InitCli ==
    /\ pc = [p \in Procs |-> "idle"]
    /\ cmd = [p \in Procs |-> NoCmd]
    /\ loc = [p \in Procs |-> NoLoc]
    /\ out = [p \in Procs |-> NoOut]
    /\ hist = [q \in Paths |-> [adds |-> 0, bytes |-> <<>>]]

InitLib ==
    /\ db = None
    /\ bld = None
    /\ ret = NoRet

cliVars == <<pc, cmd, loc, out, hist>>
libVars == <<db, bld, ret>>

----------------------------------------------------------------------------
(* Library level: a caller of Database and FileRecordBuilder                *)

PathExists(path) == fs[path].exists

\* the field values a caller hands to with_fields: two valid combinations
\* (the second with the epoch itself as time stamp), one per invalid field,
\* and one with every field invalid
FieldInputs ==
    { <<"a.txt", hash_bytes(Hello), 5, 1>>,
      <<"a.txt", hash_bytes(World), 255, 0>>,
      <<"a.txt", <<>>, 5, 1>>,
      <<"a.txt", hash_bytes(Hello), 0, 1>>,
      <<"b.txt", hash_bytes(Hello), 5, 1>>,
      <<"a.txt", hash_bytes(Hello), 5, -1>>,
      <<"b.txt", <<>>, 0, -1>> }

\* let db = Database::new()?
ApiNew ==
    /\ bld = None
    /\ \E t1 \in now..MaxClock : \E t2 \in t1..MaxClock :
         LET r == new(cwdOk, t1, t2) IN
         /\ db' = IF r.ok THEN r.val ELSE db
         /\ now' = IF r.ok THEN t2 ELSE now
         /\ ret' = [op |-> "new", ok |-> r.ok, err |-> r.err, rec |-> None]
    /\ UNCHANGED <<fs, disk, cwdOk, bld, cliVars>>

\* db.builder(): the builder borrows db until it is committed
ApiBuilder ==
    /\ IsSome(db)
    /\ bld = None
    /\ bld' = Some(builder)
    /\ ret' = [op |-> "builder", ok |-> TRUE, err |-> "", rec |-> None]
    /\ UNCHANGED <<fs, disk, cwdOk, now, db, cliVars>>

\* .with_fields(path, hash, size, time_stamp), with gen_id() drawing id
ApiWithFields ==
    /\ IsSome(bld)
    /\ \E id \in Ids : \E f \in FieldInputs :
         bld' = Some(with_fields(Unwrap(bld), id, f[1], f[2], f[3], f[4]))
    /\ ret' = [op |-> "with_fields", ok |-> TRUE, err |-> "", rec |-> None]
    /\ UNCHANGED <<fs, disk, cwdOk, now, db, cliVars>>

\* .commit(): consumes the builder
ApiCommit ==
    /\ IsSome(bld)
    /\ validate(Unwrap(bld)).ok => Len(Unwrap(db).files) < MaxFiles
    /\ \E t \in now..MaxClock :
         LET c == commit(Unwrap(bld), Unwrap(db), t) IN
         /\ db' = Some(c.db)
         /\ now' = IF c.res.ok THEN t ELSE now
         /\ ret' = [op |-> "commit", ok |-> c.res.ok, err |-> c.res.err,
                    rec |-> c.res.val]
    /\ bld' = None
    /\ UNCHANGED <<fs, disk, cwdOk, cliVars>>

\* the current directory is removed under the process
RemoveCwd ==
    /\ cwdOk
    /\ \A p \in Procs : pc[p] = "idle"
    /\ cwdOk' = FALSE
    /\ UNCHANGED <<fs, disk, now, cliVars, libVars>>

InitBuilder ==
    /\ fs = InitFs
    /\ disk = NoFile
    /\ cwdOk = TRUE
    /\ now = 0
    /\ InitCli
    /\ InitLib

NextBuilder == ApiNew \/ ApiBuilder \/ ApiWithFields \/ ApiCommit \/ RemoveCwd

SpecBuilder == InitBuilder /\ [][NextBuilder]_vars

----------------------------------------------------------------------------
(* main.rs: run(), one process per invocation of the command line          *)

Commands ==
    {[name |-> "add", path |-> Some(q), all |-> FALSE] : q \in Paths}
    \cup {[name |-> "verify", path |-> Some(q), all |-> FALSE] : q \in Paths}
    \cup {[name |-> "verify", path |-> None, all |-> TRUE],
          [name |-> "verify", path |-> None, all |-> FALSE],
          [name |-> "verify", path |-> Some("a.txt"), all |-> TRUE],
          [name |-> "status", path |-> None, all |-> FALSE],
          [name |-> "init", path |-> None, all |-> FALSE]}

FirstStep(c) ==
    IF c.name = "add" THEN "add_open"
    ELSE IF c.name = "status" THEN "status"
    ELSE IF c.name = "init" THEN "init"
    ELSE IF IsSome(c.path) /\ ~c.all THEN "verify_load"
    ELSE IF IsNone(c.path) /\ c.all THEN "verify_all"
    ELSE "verify_args"

\* the records of the persisted store, none when it cannot be loaded
StoredFiles(dsk, cwd_ok) ==
    IF load(dsk, cwd_ok).ok THEN Unwrap(load(dsk, cwd_ok).val).files ELSE <<>>

\* Cli::parse(): a process starts on a command line.  An add starts only
\* while the store has room (the bound of the model).
Start(p) ==
    /\ pc[p] = "idle"
    /\ \E c \in Commands :
         /\ c.name = "add" => Len(StoredFiles(disk, cwdOk)) < MaxFiles
         /\ cmd' = [cmd EXCEPT ![p] = c]
         /\ pc' = [pc EXCEPT ![p] = FirstStep(c)]
    /\ UNCHANGED <<fs, disk, cwdOk, now, loc, out, hist, libVars>>

\* the process ends: main returns, or exits with status 1
Exit(p) ==
    /\ pc[p] = "done"
    /\ pc' = [pc EXCEPT ![p] = "idle"]
    /\ cmd' = [cmd EXCEPT ![p] = NoCmd]
    /\ loc' = [loc EXCEPT ![p] = NoLoc]
    /\ out' = [out EXCEPT ![p] = NoOut]
    /\ UNCHANGED <<fs, disk, cwdOk, now, hist, libVars>>

Fail(p, how) ==
    /\ pc' = [pc EXCEPT ![p] = "done"]
    /\ out' = [out EXCEPT ![p].result = how]

\* files::get_file(&path): File::open
get_file(p, next) ==
    LET path == Unwrap(cmd[p].path) IN
    IF fs[path].exists
    THEN /\ loc' = [loc EXCEPT ![p].file = Some(path)]
         /\ out' = [out EXCEPT ![p].opens = @ + 1]
         /\ pc' = [pc EXCEPT ![p] = next]
    ELSE /\ Fail(p, "err")
         /\ UNCHANGED loc

\* hash::hash_file(&file): get_meta may fail, read_to_end_at is expect()ed
hash_file(p, next) ==
    LET path == Unwrap(loc[p].file) IN
    \E io \in {"ok", "meta_err", "read_panic"} :
       IF io = "ok"
       THEN /\ loc' = [loc EXCEPT ![p].hash = Some(hash_bytes(fs[path].bytes)),
                                  ![p].read = Some(fs[path].bytes)]
            /\ pc' = [pc EXCEPT ![p] = next]
            /\ UNCHANGED out
       ELSE /\ Fail(p, IF io = "meta_err" THEN "err" ELSE "panic")
            /\ UNCHANGED loc

AddOpen(p) ==
    /\ pc[p] = "add_open"
    /\ get_file(p, "add_meta")
    /\ UNCHANGED <<fs, disk, cwdOk, now, cmd, hist, libVars>>

\* files::get_meta(&file)
AddMeta(p) ==
    /\ pc[p] = "add_meta"
    /\ LET f == fs[Unwrap(loc[p].file)] IN
       \E io_ok \in BOOLEAN :
          IF io_ok
          THEN /\ loc' = [loc EXCEPT ![p].meta =
                              Some([len |-> Len(f.bytes), created |-> f.created])]
               /\ pc' = [pc EXCEPT ![p] = "add_hash"]
               /\ UNCHANGED out
          ELSE /\ Fail(p, "err")
               /\ UNCHANGED loc
    /\ UNCHANGED <<fs, disk, cwdOk, now, cmd, hist, libVars>>

AddHash(p) ==
    /\ pc[p] = "add_hash"
    /\ hash_file(p, "add_db")
    /\ UNCHANGED <<fs, disk, cwdOk, now, cmd, hist, libVars>>

\* a get_or_create_db that writes the fresh Database to the store file
AddDb_create_file(p) ==
    /\ pc[p] = "add_db"
    /\ \E t1 \in now..MaxClock : \E t2 \in t1..MaxClock :
         LET r == get_or_create_db(disk, cwdOk, t1, t2) IN
         IF r.ok
         THEN /\ loc' = [loc EXCEPT ![p].db = r.val]
              /\ out' = [out EXCEPT ![p].loads =
                             IF DbReadable(disk, cwdOk) THEN @ + 1 ELSE @]
              /\ pc' = [pc EXCEPT ![p] = "add_commit"]
              /\ now' = IF DbReadable(disk, cwdOk) THEN now ELSE t2
              /\ disk' = IF DbReadable(disk, cwdOk) THEN disk
                         ELSE save(Unwrap(r.val), disk, cwdOk).disk
         ELSE /\ Fail(p, "err")
              /\ UNCHANGED <<loc, now, disk>>
    /\ UNCHANGED <<fs, cwdOk, cmd, hist, libVars>>

\* Database::get_or_create_db(DB_PATH)
AddDb(p) ==
    /\ pc[p] = "add_db"
    /\ \E t1 \in now..MaxClock : \E t2 \in t1..MaxClock :
         LET r == get_or_create_db(disk, cwdOk, t1, t2) IN
         IF r.ok
         THEN /\ loc' = [loc EXCEPT ![p].db = r.val]
              /\ out' = [out EXCEPT ![p].loads =
                             IF DbReadable(disk, cwdOk) THEN @ + 1 ELSE @]
              /\ pc' = [pc EXCEPT ![p] = "add_commit"]
              /\ now' = IF DbReadable(disk, cwdOk) THEN now ELSE t2
         ELSE /\ Fail(p, "err")
              /\ UNCHANGED <<loc, now>>
    /\ UNCHANGED <<fs, disk, cwdOk, cmd, hist, libVars>>

\* Database::gen_id() as run() meets it: ids are opaque, so up to renaming a
\* draw either repeats an id some Database already holds or is the first
\* id none holds
IdOrder == <<"id1", "id2", "id3", "id4">>
IdsOf(files) == {files[i].id : i \in 1..Len(files)}
IdsInUse ==
    IdsOf(StoredFiles(disk, cwdOk))
    \cup UNION {IF IsSome(loc[p].db) THEN IdsOf(Unwrap(loc[p].db).files) ELSE {} :
                   p \in Procs}
gen_id ==
    IdsInUse \cup
    {IdOrder[CHOOSE i \in 1..Len(IdOrder) :
                /\ IdOrder[i] \notin IdsInUse
                /\ \A j \in 1..(i - 1) : IdOrder[j] \in IdsInUse]}

\* test_db.builder().with_fields(path, hash, meta.len() as u8,
\* meta.created().expect(..).into()).commit()
AddCommit(p) ==
    /\ pc[p] = "add_commit"
    /\ \E btime \in BOOLEAN : \E id \in gen_id : \E t \in now..MaxClock :
         IF ~btime THEN Fail(p, "panic") /\ UNCHANGED <<loc, now>>
         ELSE LET m == Unwrap(loc[p].meta)
                  b == with_fields(builder, id, Unwrap(cmd[p].path),
                                   Unwrap(loc[p].hash), AsU8(m.len), m.created)
                  c == commit(b, Unwrap(loc[p].db), t)
              IN IF c.res.ok
                 THEN /\ loc' = [loc EXCEPT ![p].db = Some(c.db)]
                      /\ pc' = [pc EXCEPT ![p] = "add_save"]
                      /\ now' = t
                      /\ UNCHANGED out
                 ELSE /\ Fail(p, "err")
                      /\ UNCHANGED <<loc, now>>
    /\ UNCHANGED <<fs, disk, cwdOk, cmd, hist, libVars>>

\* a save under a lock that reads the store file again and appends the new
\* record to what is there
AddSave_merge(p) ==
    /\ pc[p] = "add_save"
    /\ LET mine == Unwrap(loc[p].db)
           merged == [mine EXCEPT !.files =
                         StoredFiles(disk, cwdOk) \o <<mine.files[Len(mine.files)]>>]
           r == save(merged, disk, cwdOk)
           path == Unwrap(cmd[p].path)
       IN /\ disk' = r.disk
          /\ pc' = [pc EXCEPT ![p] = "done"]
          /\ IF r.res.ok
             THEN /\ out' = [out EXCEPT ![p].result = "ok", ![p].writes = @ + 1]
                  /\ hist' = [hist EXCEPT ![path] =
                                 [adds |-> @.adds + 1, bytes |-> Unwrap(loc[p].read)]]
             ELSE /\ out' = [out EXCEPT ![p].result = "err"]
                  /\ UNCHANGED hist
    /\ UNCHANGED <<fs, cwdOk, now, cmd, loc, libVars>>

\* test_db.save(), then "File added!"
AddSave(p) ==
    /\ pc[p] = "add_save"
    /\ LET r == save(Unwrap(loc[p].db), disk, cwdOk)
           path == Unwrap(cmd[p].path)
       IN /\ disk' = r.disk
          /\ pc' = [pc EXCEPT ![p] = "done"]
          /\ IF r.res.ok
             THEN /\ out' = [out EXCEPT ![p].result = "ok", ![p].writes = @ + 1]
                  /\ hist' = [hist EXCEPT ![path] =
                                 [adds |-> @.adds + 1, bytes |-> Unwrap(loc[p].read)]]
             ELSE /\ out' = [out EXCEPT ![p].result = "err"]
                  /\ UNCHANGED hist
    /\ UNCHANGED <<fs, cwdOk, now, cmd, loc, libVars>>

\* Database::load(DB_PATH)
VerifyLoad(p) ==
    /\ pc[p] = "verify_load"
    /\ LET r == load(disk, cwdOk) IN
       IF r.ok
       THEN /\ loc' = [loc EXCEPT ![p].db = r.val]
            /\ out' = [out EXCEPT ![p].loads = @ + 1]
            /\ pc' = [pc EXCEPT ![p] = "verify_open"]
       ELSE /\ Fail(p, "err")
            /\ UNCHANGED loc
    /\ UNCHANGED <<fs, disk, cwdOk, now, cmd, hist, libVars>>

\* a verify that takes a file it cannot open for an untracked one
VerifyOpen_untracked(p) ==
    /\ pc[p] = "verify_open"
    /\ IF fs[Unwrap(cmd[p].path)].exists
       THEN get_file(p, "verify_hash")
       ELSE /\ pc' = [pc EXCEPT ![p] = "done"]
            /\ out' = [out EXCEPT ![p].result = "ok", ![p].outcome = "Untracked"]
            /\ UNCHANGED loc
    /\ UNCHANGED <<fs, disk, cwdOk, now, cmd, hist, libVars>>

VerifyOpen(p) ==
    /\ pc[p] = "verify_open"
    /\ get_file(p, "verify_hash")
    /\ UNCHANGED <<fs, disk, cwdOk, now, cmd, hist, libVars>>

VerifyHash(p) ==
    /\ pc[p] = "verify_hash"
    /\ hash_file(p, "verify_compare")
    /\ UNCHANGED <<fs, disk, cwdOk, now, cmd, hist, libVars>>

\* a find that keeps the last match
find_last(files, path) ==
    IF \E i \in 1..Len(files) : files[i].path = path
    THEN CHOOSE i \in 1..Len(files) :
            /\ files[i].path = path
            /\ \A j \in (i + 1)..Len(files) : files[j].path # path
    ELSE 0

\* db.files.iter().find(|file| file.path == p): the index, 0 for None
find(files, path) ==
    IF \E i \in 1..Len(files) : files[i].path = path
    THEN CHOOSE i \in 1..Len(files) :
            /\ files[i].path = path
            /\ \A j \in 1..(i - 1) : files[j].path # path
    ELSE 0

\* &s.0[0..8]: panics on a string shorter than 8
CanSlice(s) == Len(s) >= HashPrefixLen
Prefix(s) == SubSeq(s, 1, HashPrefixLen)

\* a comparison that returns an error for a mismatch
compare_mismatch_is_error(files, path, current_hash) ==
    LET i == find(files, path) IN
    IF i = 0 THEN [result |-> "ok", outcome |-> "Untracked", report |-> <<>>]
    ELSE IF HexEq(current_hash, files[i].hash)
    THEN [result |-> "ok", outcome |-> "Unchanged", report |-> <<>>]
    ELSE [result |-> "err", outcome |-> "Mismatch", report |-> <<>>]

\* a comparison against every record of the path: unchanged when any of
\* them holds the current hash
compare_any_match(files, path, current_hash) ==
    LET i == find(files, path) IN
    IF i = 0 THEN [result |-> "ok", outcome |-> "Untracked", report |-> <<>>]
    ELSE IF \E j \in 1..Len(files) :
               files[j].path = path /\ HexEq(current_hash, files[j].hash)
    THEN [result |-> "ok", outcome |-> "Unchanged", report |-> <<>>]
    ELSE [result |-> "ok", outcome |-> "Mismatch",
          report |-> << [from |-> Prefix(current_hash),
                         to |-> Prefix(files[i].hash),
                         time |-> files[i].time_stamp] >>]

\* the match on stored_recored: what is printed, and whether run() goes on
compare(files, path, current_hash) ==
    LET i == find(files, path) IN
    IF i = 0 THEN [result |-> "ok", outcome |-> "Untracked", report |-> <<>>]
    ELSE IF HexEq(current_hash, files[i].hash)
    THEN [result |-> "ok", outcome |-> "Unchanged", report |-> <<>>]
    ELSE IF ~(CanSlice(current_hash) /\ CanSlice(files[i].hash))
    THEN [result |-> "panic", outcome |-> "none", report |-> <<>>]
    ELSE [result |-> "ok", outcome |-> "Mismatch",
          report |-> << [from |-> Prefix(current_hash),
                         to |-> Prefix(files[i].hash),
                         time |-> files[i].time_stamp] >>]

\* a verify that, on a mismatch, stores the new hash and saves
VerifyCompare_heal(p) ==
    /\ pc[p] = "verify_compare"
    /\ LET d == Unwrap(loc[p].db)
           c == compare(d.files, Unwrap(cmd[p].path), Unwrap(loc[p].hash))
           i == find(d.files, Unwrap(cmd[p].path))
           healed == [d EXCEPT !.files[i].hash = Unwrap(loc[p].hash)]
       IN /\ out' = [out EXCEPT ![p].result = c.result, ![p].outcome = c.outcome,
                                ![p].report = c.report]
          /\ disk' = IF c.outcome = "Mismatch" THEN save(healed, disk, cwdOk).disk
                     ELSE disk
    /\ pc' = [pc EXCEPT ![p] = "done"]
    /\ UNCHANGED <<fs, cwdOk, now, cmd, loc, hist, libVars>>

VerifyCompare(p) ==
    /\ pc[p] = "verify_compare"
    /\ LET c == compare(Unwrap(loc[p].db).files, Unwrap(cmd[p].path),
                        Unwrap(loc[p].hash))
       IN out' = [out EXCEPT ![p].result = c.result, ![p].outcome = c.outcome,
                             ![p].report = c.report]
    /\ pc' = [pc EXCEPT ![p] = "done"]
    /\ UNCHANGED <<fs, disk, cwdOk, now, cmd, loc, hist, libVars>>

\* (None, true): "Verify all - not implemented yet"
VerifyAll(p) ==
    /\ pc[p] = "verify_all"
    /\ Fail(p, "ok")
    /\ UNCHANGED <<fs, disk, cwdOk, now, cmd, loc, hist, libVars>>

\* (None, false) and (Some(_), true): std::process::exit(1)
VerifyArgs(p) ==
    /\ pc[p] = "verify_args"
    /\ Fail(p, "exit1")
    /\ UNCHANGED <<fs, disk, cwdOk, now, cmd, loc, hist, libVars>>

\* Database::db_status: slices every stored hash
db_status(d) ==
    IF \A i \in 1..Len(d.files) : CanSlice(d.files[i].hash) THEN "ok" ELSE "panic"

\* Commands::Status: load, then db_status
Status(p) ==
    /\ pc[p] = "status"
    /\ LET r == load(disk, cwdOk) IN
       IF r.ok
       THEN /\ loc' = [loc EXCEPT ![p].db = r.val]
            /\ out' = [out EXCEPT ![p].loads = @ + 1,
                                  ![p].result = db_status(Unwrap(r.val))]
            /\ pc' = [pc EXCEPT ![p] = "done"]
       ELSE /\ Fail(p, "err")
            /\ UNCHANGED loc
    /\ UNCHANGED <<fs, disk, cwdOk, now, cmd, hist, libVars>>

\* Commands::Init: "Running init..."
InitCommand(p) ==
    /\ pc[p] = "init"
    /\ Fail(p, "ok")
    /\ UNCHANGED <<fs, disk, cwdOk, now, cmd, loc, hist, libVars>>

\* no invocation is under way: the user changes files between invocations
Quiet == \A p \in Procs : pc[p] = "idle"

\* the user creates the file, or overwrites its content in place
WriteFile(path, bytes) ==
    /\ Quiet
    /\ fs[path].bytes # bytes \/ ~fs[path].exists
    /\ fs' = [fs EXCEPT ![path] =
                 Entry(bytes, IF fs[path].exists THEN fs[path].created ELSE now)]
    /\ UNCHANGED <<disk, cwdOk, now, cliVars, libVars>>

\* the user removes the file
RemoveFile(path) ==
    /\ Quiet
    /\ fs[path].exists
    /\ fs' = [fs EXCEPT ![path] = NoEntry]
    /\ UNCHANGED <<disk, cwdOk, now, cliVars, libVars>>

Step(p) ==
    \/ Start(p)
    \/ AddOpen(p) \/ AddMeta(p) \/ AddHash(p) \/ AddDb(p) \/ AddCommit(p)
    \/ AddSave(p)
    \/ VerifyLoad(p) \/ VerifyOpen(p) \/ VerifyHash(p) \/ VerifyCompare(p)
    \/ VerifyAll(p) \/ VerifyArgs(p) \/ Status(p) \/ InitCommand(p)
    \/ Exit(p)

Environment ==
    \/ \E path \in Paths : \E bytes \in Contents : WriteFile(path, bytes)
    \/ \E path \in Paths : RemoveFile(path)
    \/ RemoveCwd

Init ==
    /\ fs = InitFs
    /\ disk \in {NoFile, EmptyFile}
    /\ cwdOk = TRUE
    /\ now = 0
    /\ InitCli
    /\ InitLib

\* one invocation at a time
Next == Step("p1") \/ Environment

Spec == Init /\ [][Next]_vars

----------------------------------------------------------------------------
(* Claims about the builder *)

Populated(b) ==
    /\ IsSome(b.id) /\ IsSome(b.path) /\ IsSome(b.hash)
    /\ IsSome(b.size) /\ IsSome(b.time_stamp)

\* the invariants the record model states: a populated builder breaks one
InvalidFields(b) ==
    /\ Populated(b)
    /\ \/ Unwrap(b.hash) = <<>>
       \/ Unwrap(b.size) = 0
       \/ ~PathExists(Unwrap(b.path))
       \/ Unwrap(b.time_stamp) < 0

ValidFields(b) == Populated(b) /\ ~InvalidFields(b)

\* C1: a commit of a builder whose fields hold an empty hash, a size of zero,
\* a path that does not exist or a time stamp before the epoch returns a
\* validation error and leaves the files of the Database as they were.
C1_InvalidCommitRejected ==
    [][ApiCommit /\ InvalidFields(Unwrap(bld))
         => ~ret'.ok /\ Unwrap(db').files = Unwrap(db).files]_vars

\* C2: a commit of valid fields succeeds, and a commit that succeeds appends
\* exactly one record at the end of files, earlier records untouched; the
\* new record carries the builder's path, hash, size and time stamp;
\* updated_at is the clock reading of the commit; the record returned is the
\* new last element.
C2_CommitAppends ==
    [][ApiCommit =>
         LET b == Unwrap(bld)
             before == Unwrap(db).files
             after == Unwrap(db').files
         IN /\ ValidFields(b) => ret'.ok
            /\ ret'.ok =>
                 /\ Len(after) = Len(before) + 1
                 /\ SubSeq(after, 1, Len(before)) = before
                 /\ after[Len(after)].path = Unwrap(b.path)
                 /\ after[Len(after)].hash = Unwrap(b.hash)
                 /\ after[Len(after)].size = Unwrap(b.size)
                 /\ after[Len(after)].time_stamp = Unwrap(b.time_stamp)
                 /\ Unwrap(db').updated_at = now'
                 /\ Unwrap(db').updated_at >= Unwrap(db).updated_at
                 /\ ret'.rec = Some(after[Len(after)])]_vars

\* C2 witness: a commit has appended a record to a Database that held one
C2_Witness ==
    /\ ret.op = "commit" /\ ret.ok
    /\ Len(Unwrap(db).files) = 2
    /\ Unwrap(db).files[1] # Unwrap(db).files[2]
    /\ Unwrap(db).updated_at > Unwrap(db).created_at

\* C3: a commit that returns an error changes no field of the Database, and
\* the error is the one validate() gives for the builder.
C3_FailedCommitFrame ==
    [][ApiCommit /\ ~ret'.ok =>
         /\ db' = db
         /\ ~validate(Unwrap(bld)).ok
         /\ ret'.err = validate(Unwrap(bld)).err]_vars

\* C3 witness: a commit on a builder that never saw with_fields has failed,
\* on a Database that holds a record
C3_Witness ==
    /\ ret.op = "commit" /\ ~ret.ok /\ ret.err = "ID is missing"
    /\ IsSome(db) /\ Len(Unwrap(db).files) >= 1
    /\ bld = None

----------------------------------------------------------------------------
(* Library level: persistence of a Database *)

\* test.rs save_db: db.save()
ApiSave ==
    /\ IsSome(db)
    /\ bld = None
    /\ LET r == save(Unwrap(db), disk, cwdOk) IN
       /\ disk' = r.disk
       /\ ret' = [op |-> "save", ok |-> r.res.ok, err |-> r.res.err, rec |-> None]
    /\ UNCHANGED <<fs, cwdOk, now, db, bld, cliVars>>

\* let db = Database::load(DB_PATH)?
ApiLoad ==
    /\ bld = None
    /\ LET r == load(disk, cwdOk) IN
       /\ db' = IF r.ok THEN r.val ELSE db
       /\ ret' = [op |-> "load", ok |-> r.ok, err |-> r.err, rec |-> None]
    /\ UNCHANGED <<fs, disk, cwdOk, now, bld, cliVars>>

\* test.rs load_db: let db = Database::get_or_create_db(DB_PATH)?
ApiGetOrCreate ==
    /\ bld = None
    /\ \E t1 \in now..MaxClock : \E t2 \in t1..MaxClock :
         LET r == get_or_create_db(disk, cwdOk, t1, t2) IN
         /\ db' = IF r.ok THEN r.val ELSE db
         /\ now' = IF r.ok /\ ~DbReadable(disk, cwdOk) THEN t2 ELSE now
         /\ ret' = [op |-> "get_or_create", ok |-> r.ok, err |-> r.err,
                    rec |-> None]
    /\ UNCHANGED <<fs, disk, cwdOk, bld, cliVars>>

BoundedSeq(S, n) == UNION {[1..k -> S] : k \in 0..n}

\* records with_fields and commit can put into a Database: a one-digit and
\* a three-digit size, the epoch, and one with an empty hash, a size of
\* zero and a time stamp before the epoch
StoreInputs ==
    {f \in FieldInputs : f[3] = 255 \/ (f[1] = "a.txt" /\ f[2] # <<>> /\ f[3] = 5 /\ f[4] = 1)
                         \/ (f[2] = <<>> /\ f[3] = 0)}

SampleRecords ==
    {FileRecord(with_fields(builder, id, f[1], f[2], f[3], f[4])) :
        id \in Ids, f \in StoreInputs}

\* the Databases new() and commits can build
Stores ==
    {[version |-> VERSION, root_dir |-> CwdPath, created_at |-> c,
      updated_at |-> u, files |-> fsq] :
        c \in Times, u \in Times, fsq \in BoundedSeq(SampleRecords, MaxFiles)}

InitStore ==
    /\ fs = InitFs
    /\ disk \in {NoFile, EmptyFile}
    /\ cwdOk = TRUE
    /\ now = 0
    /\ InitCli
    /\ db \in {None} \cup {Some(S) : S \in {T \in Stores : T.created_at <= T.updated_at}}
    /\ bld = None
    /\ ret = NoRet

NextStore == ApiSave \/ ApiLoad \/ ApiGetOrCreate \/ ApiNew \/ RemoveCwd

SpecStore == InitStore /\ [][NextStore]_vars

----------------------------------------------------------------------------
(* Claims about persistence *)

\* C7: a load that follows a successful save, the persisted file still in
\* reach, succeeds and yields the Database that was saved: version,
\* root_dir, created_at, updated_at and every record of files, in order.
C7_RoundTrip ==
    [][ApiLoad /\ ret.op = "save" /\ ret.ok /\ cwdOk => ret'.ok /\ db' = db]_vars

\* C7 witness: a Database of two records, one of a three-digit size and one
\* with a time stamp before the epoch, has been loaded from the file a save
\* wrote
C7_Witness ==
    /\ ret.op = "load" /\ ret.ok
    /\ Len(Unwrap(db).files) = 2
    /\ Unwrap(db).files[1].size = 255
    /\ Unwrap(db).files[2].time_stamp < 0
    /\ Unwrap(db).files[2].hash = <<>>
    /\ Unwrap(db).updated_at > Unwrap(db).created_at
    /\ disk.text = DatabaseToJson(Unwrap(db))

IsFresh(d) == d.version = VERSION /\ d.root_dir = CwdPath /\ d.files = <<>>

\* C8 as claimed: with no file at the path get_or_create returns a fresh
\* Database of zero files and writes nothing; with a file it returns what
\* load returns, a failure of load as an error.
C8_Claimed ==
    [][ApiGetOrCreate =>
         /\ disk' = disk
         /\ IF ~DbReadable(disk, cwdOk)
            THEN ret'.ok /\ IsFresh(Unwrap(db'))
            ELSE /\ ret'.ok = load(disk, cwdOk).ok
                 /\ ret'.ok => db' = load(disk, cwdOk).val
                 /\ ~ret'.ok => db' = db]_vars

\* C8 amended: with no file at the path get_or_create returns what new()
\* returns: a fresh Database of zero files, or the error of new() when the
\* current directory cannot be determined; it writes nothing.  With a file
\* it returns what load returns, a failure of load as an error.
C8_GetOrCreate ==
    [][ApiGetOrCreate =>
         /\ disk' = disk
         /\ IF ~DbReadable(disk, cwdOk)
            THEN /\ ret'.ok = cwdOk
                 /\ ret'.ok => /\ IsFresh(Unwrap(db'))
                               /\ Unwrap(db').updated_at = now'
                 /\ ~ret'.ok => db' = db
            ELSE /\ ret'.ok = load(disk, cwdOk).ok
                 /\ ret'.ok => db' = load(disk, cwdOk).val
                 /\ ~ret'.ok => db' = db /\ disk.text = <<>>]_vars

\* C8 witness: get_or_create has met a file that is no store and has
\* returned an error, the caller's Database and the file left alone
C8_Witness ==
    /\ ret.op = "get_or_create" /\ ~ret.ok
    /\ cwdOk /\ disk = EmptyFile
    /\ IsSome(db) /\ Len(Unwrap(db).files) = 1

----------------------------------------------------------------------------
(* Claims about verify *)

Done(p) == pc[p] = "done"
Single(p) == cmd[p].name = "verify" /\ IsSome(cmd[p].path) /\ ~cmd[p].all
Bulk(p) == cmd[p].name = "verify" /\ IsNone(cmd[p].path) /\ cmd[p].all
Outcomes == {"Unchanged", "Mismatch", "Untracked"}
\* the load of the store, the open of the file and its hashing all succeeded
Hashed(p) == IsSome(loc[p].db) /\ IsSome(loc[p].file) /\ IsSome(loc[p].hash)

\* C4 as claimed: a verify of P that loaded a Store ends in exactly one of
\* the three outcomes: Untracked when no record has path P, and for a record
\* of path P with hash H, Unchanged when the live content hashes to H and
\* Mismatch when it does not.
C4_Claimed ==
    \A p \in Procs :
       Done(p) /\ Single(p) /\ IsSome(loc[p].db) =>
          LET files == Unwrap(loc[p].db).files
              P == Unwrap(cmd[p].path)
          IN /\ out[p].outcome \in Outcomes
             /\ (\A i \in 1..Len(files) : files[i].path # P)
                   => out[p].outcome = "Untracked"
             /\ \A i \in 1..Len(files) :
                   files[i].path = P /\ IsSome(loc[p].hash) =>
                      out[p].outcome =
                         IF files[i].hash = Unwrap(loc[p].hash)
                         THEN "Unchanged" ELSE "Mismatch"

\* C4 amended: a verify of P that loaded the persisted Store and opened and
\* hashed the file ends in exactly one of the three outcomes: Untracked when
\* no record has path P, and otherwise, H being the hash of the earliest
\* record of path P, Unchanged when the live content hashes to H and
\* Mismatch when it does not.  A verify that could not load the Store or
\* open or hash the file yields no outcome.
C4_VerifyOutcome ==
    \A p \in Procs :
       Done(p) /\ Single(p) =>
          IF Hashed(p)
          THEN LET files == Unwrap(loc[p].db).files
                   P == Unwrap(cmd[p].path)
                   live == hash_bytes(Unwrap(loc[p].read))
                   first == {i \in 1..Len(files) :
                               /\ files[i].path = P
                               /\ \A j \in 1..(i - 1) : files[j].path # P}
               IN /\ loc[p].db = load(disk, cwdOk).val
                  /\ out[p].outcome \in Outcomes
                  /\ first = {} => out[p].outcome = "Untracked"
                  /\ \A i \in first :
                        out[p].outcome =
                           IF files[i].hash = live THEN "Unchanged" ELSE "Mismatch"
          ELSE out[p].outcome = "none"

\* C4 witness: P has two records, the live content hashes to the hash of
\* the second and not of the first, and the verify reported a mismatch
C4_Witness ==
    \E p \in Procs :
       /\ Done(p) /\ Single(p) /\ Hashed(p)
       /\ out[p].outcome = "Mismatch"
       /\ LET files == Unwrap(loc[p].db).files IN
          /\ Len(files) = 2
          /\ files[1].path = Unwrap(cmd[p].path)
          /\ files[2].path = Unwrap(cmd[p].path)
          /\ files[2].hash = Unwrap(loc[p].hash)

\* C5: after exactly one successful add of P to a store that held no record
\* of P, a verify of P that opens and hashes the file reports Unchanged when
\* the content (its digest) is that of the add and Mismatch when the digest
\* differs; and while the store is in reach the verify loads it.
C5_AddThenVerify ==
    \A p \in Procs :
       Done(p) /\ Single(p) /\ hist[Unwrap(cmd[p].path)].adds = 1 =>
          LET added == hist[Unwrap(cmd[p].path)].bytes IN
          /\ cwdOk => IsSome(loc[p].db)
          /\ IsSome(loc[p].hash) =>
                /\ Unwrap(loc[p].read) = added => out[p].outcome = "Unchanged"
                /\ out[p].outcome =
                      IF hash_bytes(Unwrap(loc[p].read)) = hash_bytes(added)
                      THEN "Unchanged" ELSE "Mismatch"

\* C5 witness: "a.txt" was added holding "hello", overwritten, and verified
C5_Witness ==
    \E p \in Procs :
       /\ Done(p) /\ Single(p)
       /\ Unwrap(cmd[p].path) = "a.txt"
       /\ hist["a.txt"] = [adds |-> 1, bytes |-> Hello]
       /\ loc[p].read = Some(Big)
       /\ out[p].outcome = "Mismatch"

\* C6: no step of a verify, single path or bulk, whatever its end, writes
\* the persisted store or changes the Database the command loaded.
C6_VerifyReadOnly ==
    [][\A p \in Procs :
          cmd[p].name = "verify" /\ pc[p] \notin {"idle", "done"} /\ pc'[p] # pc[p]
             => /\ disk' = disk
                /\ out'[p].writes = 0
                /\ IsSome(loc[p].db) => loc'[p].db = loc[p].db]_vars

\* C6 witness: a verify has reported a mismatch and the persisted store
\* still holds the hash the add recorded
C6_Witness ==
    \E p \in Procs :
       /\ Done(p) /\ Single(p) /\ out[p].outcome = "Mismatch"
       /\ Len(StoredFiles(disk, cwdOk)) = 1
       /\ StoredFiles(disk, cwdOk)[1].hash # Unwrap(loc[p].hash)
       /\ out[p].writes = 0

\* C9: a bulk verify loads the Store once and, the files of all records
\* being there, reports one outcome per record.
C9_BulkVerifyVisitsAll ==
    \A p \in Procs :
       Done(p) /\ Bulk(p) /\ load(disk, cwdOk).ok =>
          LET files == StoredFiles(disk, cwdOk) IN
          (\A i \in 1..Len(files) : fs[files[i].path].exists) =>
             /\ out[p].loads = 1
             /\ Len(out[p].report) = Len(files)
             /\ out[p].opens = Len(files)

\* C10: a single-path verify whose load, open and hashing succeeded ends
\* with Ok and one of the three outcomes; one that does not end with Ok
\* failed to load, to open or to hash.
C10_OutcomesAreNotErrors ==
    \A p \in Procs :
       Done(p) /\ Single(p) =>
          /\ Hashed(p) => out[p].result = "ok" /\ out[p].outcome \in Outcomes
          /\ out[p].result # "ok" =>
                /\ ~Hashed(p)
                /\ out[p].result \in {"err", "panic"}

\* C10 witness: a verify of a path without a record, in a store that holds
\* a record, has ended with Ok and Untracked
C10_Witness ==
    \E p \in Procs :
       /\ Done(p) /\ Single(p) /\ out[p].result = "ok"
       /\ out[p].outcome = "Untracked"
       /\ Len(Unwrap(loc[p].db).files) >= 1

----------------------------------------------------------------------------
(* Two invocations at the same time against the same store file: nothing   *)
(* in run() or write_database_file locks it.  The files stay as they are.  *)

InitConc ==
    /\ fs = InitFs
    /\ disk \in {NoFile, EmptyFile}
    /\ cwdOk = TRUE
    /\ now = 0
    /\ InitCli
    /\ InitLib

NextConc == Step("p1") \/ Step("p2")

SpecConc == InitConc /\ [][NextConc]_vars

\* an add that has ended with "File added!"
Added(p) == Done(p) /\ cmd[p].name = "add" /\ out[p].result = "ok"
\* the record the add of p committed
NewRecord(p) == LET f == Unwrap(loc[p].db).files IN f[Len(f)]

\* C11: when two adds that ran at the same time have both ended with
\* success after committing onto the same loaded Store (their Databases
\* have the same number of records), the persisted Store is the Database
\* of the one that saved last: it holds one of the two new records, not
\* both.
C11_LostUpdate ==
    \A p \in Procs : \A q \in Procs \ {p} :
       /\ Added(p) /\ Added(q)
       /\ Len(Unwrap(loc[p].db).files) = Len(Unwrap(loc[q].db).files)
       => /\ load(disk, cwdOk).ok
          /\ load(disk, cwdOk).val \in {loc[p].db, loc[q].db}
          /\ Len(StoredFiles(disk, cwdOk)) = Len(Unwrap(loc[p].db).files)

\* C11 witness: both adds reported success, their new records differ, and
\* the persisted Store holds the record of "p2" and not that of "p1"
C11_Witness ==
    /\ Added("p1") /\ Added("p2")
    /\ NewRecord("p1") # NewRecord("p2")
    /\ Len(StoredFiles(disk, cwdOk)) = 1
    /\ StoredFiles(disk, cwdOk)[1] = NewRecord("p2")
    /\ out["p1"].writes = 1 /\ out["p2"].writes = 1

----------------------------------------------------------------------------
(* hash.rs as a library: a caller hashes files it has put in place          *)

\* the contents hashed: empty, "hello", "world" and one of 256 bytes
HashInputs == {<<>>, Hello, World, Big}

\* the caller puts a file in place, with some content and creation time
ApiPutFile ==
    /\ \E path \in Paths : \E bytes \in HashInputs : \E created \in Times :
          /\ fs[path] # Entry(bytes, created)
          /\ fs' = [fs EXCEPT ![path] = Entry(bytes, created)]
    /\ UNCHANGED <<disk, cwdOk, now, cliVars, libVars>>

\* what a call of hash_file leaves with the caller: the file it was handed,
\* the digest, and the same of the successful call before it, if any
HashCall(path, before) ==
    [path |-> path, bytes |-> fs[path].bytes, created |-> fs[path].created,
     hash |-> hash_bytes(fs[path].bytes),
     before |-> IF IsSome(before)
                THEN Some([Unwrap(before) EXCEPT !.before = None])
                ELSE None]

\* one hasher kept over the calls: the bytes of the call before are still
\* in it
ApiHashFile_streaming ==
    \E path \in Paths :
       /\ fs[path].exists
       /\ LET before == IF ret.op = "hash_file" THEN ret.rec ELSE None
              c == HashCall(path, before)
              fed == IF IsSome(before) THEN Unwrap(before).bytes \o c.bytes
                     ELSE c.bytes
          IN ret' = [op |-> "hash_file", ok |-> TRUE, err |-> "",
                     rec |-> Some([c EXCEPT !.hash = hash_bytes(fed)])]
       /\ UNCHANGED <<fs, disk, cwdOk, now, db, bld, cliVars>>

\* hash_file(&file): get_meta, read_file_bytes, hash_bytes
ApiHashFile ==
    \E path \in Paths : \E io \in {"ok", "meta_err", "read_panic"} :
       /\ fs[path].exists
       /\ LET before == IF ret.op = "hash_file" THEN ret.rec ELSE None IN
          ret' = IF io = "ok"
                 THEN [op |-> "hash_file", ok |-> TRUE, err |-> "",
                       rec |-> Some(HashCall(path, before))]
                 ELSE [op |-> "hash_file", ok |-> FALSE, err |-> io, rec |-> None]
       /\ UNCHANGED <<fs, disk, cwdOk, now, db, bld, cliVars>>

InitHash ==
    /\ fs = InitFs
    /\ disk = NoFile
    /\ cwdOk = TRUE
    /\ now = 0
    /\ InitCli
    /\ InitLib

NextHash == ApiPutFile \/ ApiHashFile

SpecHash == InitHash /\ [][NextHash]_vars

----------------------------------------------------------------------------
(* Claims about Database::new and the size of a record *)

\* C13: Database::new() yields a Database with the schema version, the
\* current directory as root_dir, created_at and updated_at equal (one
\* "now") and no files; it fails when the current directory cannot be
\* determined.
C13_NewStore ==
    [][ApiNew =>
         IF cwdOk
         THEN /\ ret'.ok
              /\ Unwrap(db').version = VERSION
              /\ Unwrap(db').root_dir = CwdPath
              /\ Unwrap(db').files = <<>>
              /\ Unwrap(db').created_at = Unwrap(db').updated_at
         ELSE ~ret'.ok /\ db' = db]_vars

\* C14: the size of the record an add committed is the length in bytes of
\* the file it read.
C14_SizeIsLength ==
    \A p \in Procs :
       Added(p) => NewRecord(p).size = Len(Unwrap(loc[p].read))

----------------------------------------------------------------------------
(* Claims about the course of a single-path verify *)

\* the steps of a single-path verify: forward, and to the end on a failure
VerifyForward ==
    {<<"verify_load", "verify_open">>, <<"verify_open", "verify_hash">>,
     <<"verify_hash", "verify_compare">>, <<"verify_compare", "done">>}
VerifyFatal ==
    {<<"verify_load", "done">>, <<"verify_open", "done">>, <<"verify_hash", "done">>}

\* C15: a single-path verify goes Start (the load), FileOpened, Hashed,
\* Compared, terminal, in that order and each step once: it opens the file
\* at most once, looks up and compares only with the file opened and
\* hashed, yields an outcome only in the comparison, and a failure to load,
\* open or hash ends it with an error and no outcome.
C15_VerifyStateMachine ==
    [][\A p \in Procs :
          Single(p) /\ pc'[p] # pc[p] =>
             /\ <<pc[p], pc'[p]>> \in VerifyForward \cup VerifyFatal
                                       \cup {<<"done", "idle">>}
             /\ out'[p].opens <= 1 /\ out'[p].loads <= 1
             /\ pc'[p] = "verify_compare" =>
                   IsSome(loc'[p].file) /\ IsSome(loc'[p].hash)
             /\ <<pc[p], pc'[p]>> = <<"verify_compare", "done">> =>
                   out'[p].outcome \in Outcomes
             /\ <<pc[p], pc'[p]>> \in VerifyFatal =>
                   /\ out'[p].outcome = "none"
                   /\ out'[p].result \in {"err", "panic"}]_vars

\* C15 witness: a verify of a path without a record whose file cannot be
\* opened has ended with an error and no outcome, the Store loaded
C15_Witness ==
    \E p \in Procs :
       /\ Done(p) /\ Single(p)
       /\ IsSome(loc[p].db) /\ IsNone(loc[p].file)
       /\ find(Unwrap(loc[p].db).files, Unwrap(cmd[p].path)) = 0
       /\ ~fs[Unwrap(cmd[p].path)].exists
       /\ out[p].result = "err" /\ out[p].outcome = "none"

\* C16: on a Mismatch the report names the stored record's hash as the old
\* ("From") hash, the live file's digest as the new ("To") hash, and the
\* stored record's time_stamp as the time.
C16_MismatchRoles ==
    \A p \in Procs :
       Done(p) /\ Single(p) /\ out[p].outcome = "Mismatch" =>
          LET files == Unwrap(loc[p].db).files
              record == files[find(files, Unwrap(cmd[p].path))]
          IN /\ Len(out[p].report) = 1
             /\ out[p].report[1].from = Prefix(record.hash)
             /\ out[p].report[1].to = Prefix(Unwrap(loc[p].hash))
             /\ out[p].report[1].time = record.time_stamp

\* C17: add does not deduplicate, so a path may have several records; a
\* single-path verify compares the live hash with the earliest record of
\* the path alone, and its outcome is the one it has on the Store cut off
\* after that record.
C17_FirstMatchWins ==
    \A p \in Procs :
       Done(p) /\ Single(p) /\ Hashed(p) =>
          LET files == Unwrap(loc[p].db).files
              P == Unwrap(cmd[p].path)
              live == Unwrap(loc[p].hash)
              of_P == {i \in 1..Len(files) : files[i].path = P}
          IN of_P # {} =>
                LET first == CHOOSE i \in of_P : \A j \in of_P : i <= j IN
                /\ out[p].outcome =
                      IF files[first].hash = live THEN "Unchanged" ELSE "Mismatch"
                /\ out[p].outcome = compare(SubSeq(files, 1, first), P, live).outcome

\* C17 witness: two adds of one path left two records of different hashes;
\* the live content has the hash of the first and the verify reported
\* Unchanged
C17_Witness ==
    \E p \in Procs :
       /\ Done(p) /\ Single(p) /\ Hashed(p)
       /\ LET files == Unwrap(loc[p].db).files IN
          /\ Len(files) = 2
          /\ files[1].path = Unwrap(cmd[p].path)
          /\ files[2].path = Unwrap(cmd[p].path)
          /\ files[1].id # files[2].id
          /\ files[1].hash = Unwrap(loc[p].hash)
          /\ files[2].hash # Unwrap(loc[p].hash)
       /\ out[p].outcome = "Unchanged"

----------------------------------------------------------------------------
(* Claims about the ids of records and about validate *)

DistinctIds(files) ==
    \A i \in 1..Len(files) : \A j \in 1..Len(files) :
       i # j => files[i].id # files[j].id

C19_BulkAbortsOnFailure ==
    \A p \in Procs :
       Done(p) /\ Bulk(p) /\ load(disk, cwdOk).ok =>
          LET files == StoredFiles(disk, cwdOk)
              gone == {i \in 1..Len(files) : ~fs[files[i].path].exists}
          IN gone # {} =>
                /\ out[p].result = "err"
                /\ Len(out[p].report) =
                      (CHOOSE i \in gone : \A j \in gone : i <= j) - 1

\* the builders a caller can hold: every field is public and optional, and
\* a present value need not be a valid one
PartialBuilders ==
    [id : {None, Some("id1"), Some("")},
     path : {None, Some("a.txt"), Some("b.txt")},
     hash : {None, Some(hash_bytes(Hello)), Some(<<>>)},
     size : {None, Some(5), Some(0)},
     time_stamp : {None, Some(1), Some(-1)}]

\* builder.validate(): takes &self
ApiValidate ==
    /\ IsSome(bld)
    /\ LET r == validate(Unwrap(bld)) IN
       ret' = [op |-> "validate", ok |-> r.ok, err |-> r.err, rec |-> None]
    /\ UNCHANGED <<fs, disk, cwdOk, now, db, bld, cliVars>>

InitValidate ==
    /\ fs = InitFs
    /\ disk = NoFile
    /\ cwdOk = TRUE
    /\ now = 0
    /\ InitCli
    /\ db = new(TRUE, 0, 0).val
    /\ bld \in {Some(b) : b \in PartialBuilders}
    /\ ret = NoRet

NextValidate == ApiValidate

SpecValidate == InitValidate /\ [][NextValidate]_vars

ValidateOrder == <<"id", "path", "hash", "size", "time_stamp">>
ValidateReason ==
    <<"ID is missing", "Path is missing", "Hash is missing", "Size is missing",
      "Timestamp is missing">>

----------------------------------------------------------------------------
(* Claims about the write of add and the timestamps of the Database *)

\* C21: an add writes the store file at most once, in the save that follows
\* its successful commit; every other step of it, and with it every add
\* that fails at the open, the metadata, the hashing, the load or the
\* commit, leaves the store file as it was.
C21_AddWritesAfterCommit ==
    [][\A p \in Procs :
          cmd[p].name = "add" /\ pc[p] # "done" /\ pc'[p] # pc[p] =>
             /\ out'[p].writes <= 1
             /\ disk' # disk \/ out'[p].writes # out[p].writes =>
                   /\ pc[p] = "add_save"
                   /\ IsSome(loc[p].db)
                   /\ Unwrap(loc[p].db).files # <<>>
                   /\ NewRecord(p).path = Unwrap(cmd[p].path)
                   /\ load(disk', cwdOk).val = loc[p].db
             /\ pc[p] # "add_save" /\ pc'[p] = "done" =>
                   /\ out'[p].result \in {"err", "panic"}
                   /\ disk' = disk]_vars

\* C21 witness: an add has loaded a Store of one record, failed at the
\* commit, and the store file still holds that one record
C21_Witness ==
    \E p \in Procs :
       /\ Done(p) /\ cmd[p].name = "add"
       /\ out[p].result = "panic" /\ out[p].writes = 0
       /\ IsSome(loc[p].db) /\ IsSome(loc[p].hash)
       /\ Len(Unwrap(loc[p].db).files) = 1
       /\ load(disk, cwdOk).val = loc[p].db

\* C22: in every Database reached from new() by successful and failed
\* commits, the clock not going back, created_at <= updated_at; a commit
\* changes neither created_at nor version nor root_dir and never
\* decreases updated_at.
C22_Timestamps ==
    [][/\ IsSome(db') => Unwrap(db').created_at <= Unwrap(db').updated_at
       /\ ApiCommit =>
             /\ Unwrap(db').created_at = Unwrap(db).created_at
             /\ Unwrap(db').version = Unwrap(db).version
             /\ Unwrap(db').root_dir = Unwrap(db).root_dir
             /\ Unwrap(db').updated_at >= Unwrap(db).updated_at
             /\ ~ret'.ok => Unwrap(db').updated_at = Unwrap(db).updated_at]_vars

\* C22 witness: after a successful commit later than the creation, a
\* commit has failed and updated_at is still that of the successful one
C22_Witness ==
    /\ ret.op = "commit" /\ ~ret.ok
    /\ Len(Unwrap(db).files) = 1
    /\ Unwrap(db).created_at = 0
    /\ Unwrap(db).updated_at = 1
    /\ now = 1

====
